---- MODULE Spec2Model ----
(***************************************************************************)
(* State-machine model of the chat backend of wechatnext:                  *)
(*   netlify/functions/chat.ts           POST /chat (turn execution)       *)
(*   netlify/functions/conversations.ts  GET/POST/PATCH/DELETE of index    *)
(* Both functions share one blob store ("chat").  Every invocation is a    *)
(* request slot r with its own locals; the only shared state is the store  *)
(* and the wall clock.  An action is the code between two awaits.          *)
(***************************************************************************)
EXTENDS Integers, Sequences, FiniteSets, TLC

VARIABLES
    blobs,           \* the blob store "chat": key -> [present, json]
    now,             \* Date.now()
    OPENAI_API_KEY,  \* process.env.OPENAI_API_KEY is set
    rq,              \* per invocation: position and locals of the handler
    nreq,            \* invocations started so far
    ui               \* the chat client: React state and position of its handlers

vars == <<blobs, now, OPENAI_API_KEY, rq, nreq, ui>>

\* ------------------------------------------------------------------ bounds
MaxRequests == 2     \* invocations per behaviour
MaxClock == 1        \* Date.now() ranges over 0..MaxClock
MaxChunks == 2       \* chunks the gateway yields per stream

\* ------------------------------------------------------------------ inputs
Reqs == {1, 2}                       \* concurrent invocations
ConversationIds == {"a"}             \* ids a client supplies
UUIDSeq == <<"u1", "u2", "u3", "u4">>   \* values crypto.randomUUID() yields, in order
UUIDs == {UUIDSeq[i] : i \in 1..Len(UUIDSeq)}
Ids == ConversationIds \cup UUIDs
MessageInputs == {"", " ", " hi ", "yo"}   \* body.message ("" stands for a missing field)
Deltas == {"", "Hel", "lo"}          \* delta.content of a gateway chunk
Replies == {"", "Hello"}             \* content of a non-streamed completion
Whitespace == {" "}
\* body.conversationId ("" stands for a missing field)
ConversationIdInputs == {"", " a ", "index"}
\* a model id of 201 characters, one more than chat.ts:99 admits
LongModel ==
    "aaaaaaaaaaaaaaaaaaaaaaaaaaaaaaaaaaaaaaaaaaaaaaaaaaaaaaaaaaaaaaaaaaaaaaaaaaaaaaaaaaaaaaaaaaaaaaaaaaaaaaaaaaaaaaaaaaaaaaaaaaaaaaaaaaaaaaaaaaaaaaaaaaaaaaaaaaaaaaaaaaaaaaaaaaaaaaaaaaaaaaaaaaaaaaaaaaaaaaaaa"
\* body.model ("" stands for a missing field)
ModelInputs == {"", "gpt-4o-mini", " gpt-4o-mini ", "no good", "a/b", LongModel}
ErrorStatuses == {0, 429}            \* e.status of a provider error (0 stands for undefined)

\* ------------------------------------------------------------- chat.ts
\* chat.ts:62-64
keyFor(id) == "conversations/" \o id \o ".json"

\* conversations.ts:51
INDEX_KEY == "conversations/index.json"

BlobKeys == {keyFor(i) : i \in Ids} \cup {INDEX_KEY}

\* String.prototype.trim, as used at chat.ts:108 and chat.ts:135
RECURSIVE trimStart(_)
trimStart(s) ==
    IF Len(s) > 0 /\ SubSeq(s, 1, 1) \in Whitespace
    THEN trimStart(SubSeq(s, 2, Len(s)))
    ELSE s

RECURSIVE trimEnd(_)
trimEnd(s) ==
    IF Len(s) > 0 /\ SubSeq(s, Len(s), Len(s)) \in Whitespace
    THEN trimEnd(SubSeq(s, 1, Len(s) - 1))
    ELSE s

trim(s) == trimEnd(trimStart(s))

\* chat.ts:58  process.env.OPENAI_MODEL ?? "gpt-4o-mini"
FALLBACK_MODEL == "gpt-4o-mini"

\* chat.ts:95-97
chosenModel(model) == IF trim(model) # "" THEN trim(model) ELSE FALLBACK_MODEL

\* the character class [a-zA-Z0-9._-] of chat.ts:99
ModelChars ==
    {"a","b","c","d","e","f","g","h","i","j","k","l","m",
     "n","o","p","q","r","s","t","u","v","w","x","y","z",
     "A","B","C","D","E","F","G","H","I","J","K","L","M",
     "N","O","P","Q","R","S","T","U","V","W","X","Y","Z",
     "0","1","2","3","4","5","6","7","8","9",".","_","-"}

\* chat.ts:99  the upper repetition count of the regular expression
MODEL_MAX_LEN == 200

\* the check of the characters left out
validModelAnyChars(m) ==
    /\ Len(m) >= 1
    /\ Len(m) <= MODEL_MAX_LEN

\* chat.ts:99  /^[a-zA-Z0-9._-]{1,200}$/.test(chosenModel)
validModel(m) ==
    /\ Len(m) >= 1
    /\ Len(m) <= MODEL_MAX_LEN
    /\ \A i \in 1..Len(m) : SubSeq(m, i, i) \in ModelChars

\* a blob that was never written (store.get yields null)
Missing == [present |-> FALSE, array |-> FALSE, json |-> <<>>]

\* store.set(key, JSON.stringify(value)) of an array value
Stored(value) == [present |-> TRUE, array |-> TRUE, json |-> value]

\* a blob whose bytes are not the JSON of an array: store.get(key, {type: "json"})
\* throws on it or yields a value that is no array
Corrupt == [present |-> TRUE, array |-> FALSE, json |-> <<>>]

\* chat.ts:131  (await store.get(blobKey, {type: "json"})) ?? []
LoadHistory(blob) == IF blob.present THEN blob.json ELSE <<>>

\* the user turn stored with the message as typed
UserTurnUntrimmed(history, message, ts) ==
    Append(history, [role |-> "user", content |-> message, ts |-> ts])

\* chat.ts:133-136  [...history, {role: "user", content: message.trim(), ts: now}]
UserTurn(history, message, ts) ==
    Append(history, [role |-> "user", content |-> trim(message), ts |-> ts])

\* only the latest turn kept in the stored log
AssistantTurnKeepsLastTurn(updatedHistory, content, ts) ==
    <<updatedHistory[Len(updatedHistory)],
      [role |-> "assistant", content |-> content, ts |-> ts]>>

\* chat.ts:150 and chat.ts:198  [...updatedHistory, {role: "assistant", content, ts}]
AssistantTurn(updatedHistory, content, ts) ==
    Append(updatedHistory, [role |-> "assistant", content |-> content, ts |-> ts])

\* the messages passed on with their timestamps
projectKeepsTs(log) == log

\* chat.ts:143 and 172  the {role, content} pairs of a log, timestamps stripped ("" stands
\* for the undefined that an entry without the field gives)
project(log) ==
    [i \in 1..Len(log) |->
        [role |-> IF "role" \in DOMAIN log[i] THEN log[i].role ELSE "",
         content |-> IF "content" \in DOMAIN log[i] THEN log[i].content ELSE ""]]

\* chat.ts:202  the marker enqueued by the catch block
ABORT_MARKER == "\n[stream aborted]\n"

\* conversations.ts:49  ConvMeta
NoMeta == [id |-> "", title |-> "", model |-> "", createdAt |-> 0, updatedAt |-> 0]

\* the locals of an invocation that has not started
Idle ==
    [pc |-> "idle", fn |-> "", kind |-> "", id |-> "", blobKey |-> "", message |-> "",
     history |-> <<>>, updatedHistory |-> <<>>,
     stream |-> <<>>, assistant |-> "", out |-> <<>>,
     ts |-> 0, closed |-> FALSE, cancelled |-> FALSE, status |-> 0, sets |-> 0,
     list |-> <<>>, meta |-> NoMeta,
     gets |-> 0,            \* store.get calls made so far
     gateway |-> "",        \* "" not called, "called", "rejected"
     sent |-> <<>>,         \* the messages argument of the gateway call
     upstream |-> 0,        \* e.status of the provider error (0: none or undefined)
     error |-> "",          \* the error field of the JSON body answered
     readFailed |-> FALSE,  \* the store.get inside loadIndex threw
     midStream |-> FALSE]   \* the caller cancelled before the stream was exhausted

\* an invocation that has ended: what it was asked, what it loaded and what it
\* sent to its caller stay on record, its working values are dropped
Ended(q, pc, status) ==
    [q EXCEPT !.pc = pc, !.status = status, !.updatedHistory = <<>>, !.stream = <<>>,
              !.ts = 0, !.list = <<>>, !.meta = NoMeta]

\* an invocation that answers with a status and the error field of a JSON body
Respond(q, status, error) == [Ended(q, "responded", status) EXCEPT !.error = error]

Terminal == {"responded", "Committed", "Aborted"}

\* Chat.tsx:301-305  the chat client after its first render and the restore of the
\* conversation id from localStorage (Chat.tsx:370-374; "" stands for null)
Mounted(cid) ==
    [pc |-> "idle",                  \* idle, fetching (the /chat fetch and its stream)
     messages |-> <<>>,              \* the state messages
     conversationId |-> cid,         \* the state conversationId
     snapshot |-> [messages |-> <<>>, conversationId |-> ""],
                                     \* messages and conversationId of the render whose
                                     \* handleSubmit is running
     request |-> [method |-> ""],    \* the request of the fetch in flight
     seq |-> 0,                      \* fetches issued
     events |-> 0]                   \* conversations-updated events dispatched

Init ==
    /\ blobs = [k \in BlobKeys |-> Missing]
    /\ now = 0
    /\ OPENAI_API_KEY \in BOOLEAN
    /\ rq = [r \in Reqs |-> Idle]
    /\ nreq = 0
    /\ ui = Mounted("")

\* the request bodies and URLs a caller of /chat can send
ChatInputs ==
    [ping : BOOLEAN, method : {"POST", "GET"}, debug : BOOLEAN,
     message : MessageInputs, newConversation : BOOLEAN,
     conversationId : ConversationIdInputs, model : ModelInputs]

\* x.id of an element of a stored array ("" stands for undefined)
idOf(x) == IF "id" \in DOMAIN x THEN x.id ELSE ""

\* an id no blob, no index entry and no invocation holds, neither as its own id nor in
\* the list it loaded
Fresh(u) ==
    /\ ~blobs[keyFor(u)].present
    /\ \A q \in Reqs :
          /\ rq[q].id # u
          /\ \A i \in 1..Len(rq[q].list) : idOf(rq[q].list[i]) # u
    /\ \A i \in 1..Len(blobs[INDEX_KEY].json) : idOf(blobs[INDEX_KEY].json[i]) # u

\* an id generator that hands out one id again and again
RepeatedUUIDs == {UUIDSeq[1]}

\* crypto.randomUUID(): an id never seen before; the unused values are
\* interchangeable, so the first one in UUIDSeq is taken
FreshUUIDs ==
    {UUIDSeq[i] : i \in {j \in 1..Len(UUIDSeq) :
                            Fresh(UUIDSeq[j]) /\ \A k \in 1..(j - 1) : ~Fresh(UUIDSeq[k])}}

\* chat.ts:107-109  the conversation id of the request
ResolveId(conversationId) ==
    IF trim(conversationId) # "" THEN {trim(conversationId)} ELSE FreshUUIDs

\* a new invocation takes the first free slot
CanStart(r) ==
    /\ rq[r].pc = "idle"
    /\ nreq < MaxRequests
    /\ \A q \in Reqs : q < r => rq[q].pc # "idle"

\* a chunk put at the head of the queue
EnqueueFirst(q, chunk) == [q EXCEPT !.out = <<chunk>> \o @]

\* chat.ts:185 and 191  controller.enqueue(chunk); it throws on a cancelled stream
Enqueue(q, chunk) == [q EXCEPT !.out = Append(@, chunk)]

\* chat.ts:204  controller.close()
Close(q) == [q EXCEPT !.closed = TRUE]

\* the catch block without the finally: the channel stays open
AbortLeavesOpen(q) ==
    IF q.cancelled
    THEN Ended(q, "Aborted", q.status)
    ELSE Ended(Enqueue(q, ABORT_MARKER), "Aborted", q.status)

\* chat.ts:200-205  catch and finally of ReadableStream.start: enqueue the marker and
\* close; on a cancelled stream controller.enqueue and controller.close throw
Abort(q) ==
    IF q.cancelled
    THEN Ended(q, "Aborted", q.status)
    ELSE Ended(Close(Enqueue(q, ABORT_MARKER)), "Aborted", q.status)

\* the credential looked at only when the gateway is about to be called
ChatRequestChecksKeyLate(r, in) ==
    /\ CanStart(r)
    /\ nreq' = nreq + 1
    /\ UNCHANGED <<blobs, now, OPENAI_API_KEY, ui>>
    /\ LET q == [Idle EXCEPT !.fn = "chat"]
           reply(code, error) == rq' = [rq EXCEPT ![r] = Respond(q, code, error)]
       IN  IF in.ping THEN reply(200, "")
           ELSE IF in.method # "POST" THEN reply(405, "")
           ELSE IF ~validModel(chosenModel(in.model)) THEN reply(400, "invalid_model")
           ELSE \E id \in ResolveId(in.conversationId) :
                 LET q1 == [q EXCEPT !.id = id, !.blobKey = keyFor(id)]
                 IN  IF in.newConversation
                     THEN rq' = [rq EXCEPT ![r] =
                                    [q1 EXCEPT !.pc = "newConversation",
                                               !.kind = "newConversation"]]
                     ELSE IF trim(in.message) = ""
                     THEN reply(400, "Message is required")
                     ELSE IF ~OPENAI_API_KEY THEN reply(500, "Missing OPENAI_API_KEY")
                     ELSE rq' = [rq EXCEPT ![r] =
                                    [q1 EXCEPT !.pc = "load", !.message = in.message,
                                               !.kind = IF in.debug THEN "debug" ELSE "stream"]]

\* chat.ts:66-128  the handler up to its first store access
ChatRequest(r, in) ==
    /\ CanStart(r)
    /\ nreq' = nreq + 1
    /\ UNCHANGED <<blobs, now, OPENAI_API_KEY, ui>>
    /\ LET q == [Idle EXCEPT !.fn = "chat"]
           reply(code, error) == rq' = [rq EXCEPT ![r] = Respond(q, code, error)]
       IN  IF in.ping THEN reply(200, "")
           ELSE IF in.method # "POST" THEN reply(405, "")
           ELSE IF ~OPENAI_API_KEY THEN reply(500, "Missing OPENAI_API_KEY")
           ELSE IF ~validModel(chosenModel(in.model)) THEN reply(400, "invalid_model")
           ELSE \E id \in ResolveId(in.conversationId) :
                 LET q1 == [q EXCEPT !.id = id, !.blobKey = keyFor(id)]
                 IN  IF in.newConversation
                     THEN rq' = [rq EXCEPT ![r] =
                                    [q1 EXCEPT !.pc = "newConversation",
                                               !.kind = "newConversation"]]
                     ELSE IF trim(in.message) = ""
                     THEN reply(400, "Message is required")
                     ELSE rq' = [rq EXCEPT ![r] =
                                    [q1 EXCEPT !.pc = "load", !.message = in.message,
                                               !.kind = IF in.debug THEN "debug" ELSE "stream"]]

\* the empty log written only when no log is stored yet
NewConversationIfAbsent(r) ==
    /\ rq[r].pc = "newConversation"
    /\ UNCHANGED <<now, OPENAI_API_KEY, nreq, ui>>
    /\ LET q == [rq[r] EXCEPT !.sets = @ + 1]
       IN  \/ /\ blobs' = [blobs EXCEPT ![q.blobKey] =
                              IF @.present THEN @ ELSE Stored(<<>>)]
              /\ rq' = [rq EXCEPT ![r] = Ended(q, "responded", 200)]
           \/ /\ rq' = [rq EXCEPT ![r] = Respond(q, 500, "Internal Server Error")]
              /\ UNCHANGED blobs

\* chat.ts:113-120  await store.set(blobKey, "[]"); a throw goes to the outer catch
NewConversation(r) ==
    /\ rq[r].pc = "newConversation"
    /\ UNCHANGED <<now, OPENAI_API_KEY, nreq, ui>>
    /\ LET q == [rq[r] EXCEPT !.sets = @ + 1]
       IN  \/ /\ blobs' = [blobs EXCEPT ![q.blobKey] = Stored(<<>>)]
              /\ rq' = [rq EXCEPT ![r] = Ended(q, "responded", 200)]
           \/ /\ rq' = [rq EXCEPT ![r] = Respond(q, 500, "Internal Server Error")]
              /\ UNCHANGED blobs

\* the user turn written to the store as soon as it is built
LoadPersistsUser(r) ==
    /\ rq[r].pc = "load"
    /\ UNCHANGED <<now, OPENAI_API_KEY, nreq, ui>>
    /\ LET history == LoadHistory(blobs[rq[r].blobKey])
           updatedHistory == UserTurn(history, rq[r].message, now)
       IN  /\ rq' = [rq EXCEPT ![r].history = history, ![r].gets = @ + 1,
                               ![r].updatedHistory = updatedHistory,
                               ![r].pc = IF rq[r].kind = "debug" THEN "debug" ELSE "create"]
           /\ blobs' = [blobs EXCEPT ![rq[r].blobKey] = Stored(updatedHistory)]

\* chat.ts:130-136  load the log and append the user turn in memory; store.get throws
\* when the read fails or the blob is not JSON, the spread throws on a value that is
\* not iterable, and both go to the outer catch (chat.ts:217-222)
Load(r) ==
    /\ rq[r].pc = "load"
    /\ UNCHANGED <<blobs, now, OPENAI_API_KEY, nreq, ui>>
    /\ LET q == [rq[r] EXCEPT !.gets = @ + 1]
           blob == blobs[q.blobKey]
       IN  \/ /\ blob.present => blob.array
              /\ LET history == LoadHistory(blob)
                 IN  rq' = [rq EXCEPT ![r] =
                               [q EXCEPT !.history = history,
                                         !.updatedHistory = UserTurn(history, q.message, now),
                                         !.pc = IF q.kind = "debug" THEN "debug" ELSE "create"]]
           \/ rq' = [rq EXCEPT ![r] = Respond(q, 500, "Internal Server Error")]

\* chat.ts:141-147 and 159-165  the non-streamed completion of the debug path
DebugCompletion(r) ==
    /\ rq[r].pc = "debug"
    /\ UNCHANGED <<blobs, now, OPENAI_API_KEY, nreq, ui>>
    /\ \/ \E reply \in Replies :
             rq' = [rq EXCEPT ![r].assistant = reply, ![r].ts = now, ![r].pc = "debugSet",
                              ![r].gateway = "called",
                              ![r].sent = project(rq[r].updatedHistory)]
       \/ \E e \in ErrorStatuses :
             rq' = [rq EXCEPT ![r] =
                       Respond([rq[r] EXCEPT !.gateway = "rejected", !.upstream = e,
                                             !.sent = project(rq[r].updatedHistory)],
                               IF e = 0 THEN 500 ELSE e, "openai")]

\* chat.ts:148-158  the commit of the debug path; a throw is caught at chat.ts:159
DebugSet(r) ==
    /\ rq[r].pc = "debugSet"
    /\ UNCHANGED <<now, OPENAI_API_KEY, nreq, ui>>
    /\ LET q == [rq[r] EXCEPT !.sets = @ + 1]
       IN  \/ /\ blobs' = [blobs EXCEPT ![q.blobKey] =
                              Stored(AssistantTurn(q.updatedHistory, q.assistant, q.ts))]
              /\ rq' = [rq EXCEPT ![r] = Ended(q, "Committed", 200)]
           \/ /\ rq' = [rq EXCEPT ![r] = Respond(q, 500, "openai")]
              /\ UNCHANGED blobs

\* chat.ts:170-185 and 208-216  open the gateway stream, return the 200 response and
\* flush an empty chunk; a rejected request goes to the outer catch (chat.ts:217-222)
Create(r) ==
    /\ rq[r].pc = "create"
    /\ UNCHANGED <<blobs, now, OPENAI_API_KEY, nreq, ui>>
    /\ \/ rq' = [rq EXCEPT ![r] = [Enqueue(rq[r], "") EXCEPT
                                       !.pc = "streaming", !.status = 200,
                                       !.gateway = "called",
                                       !.sent = project(rq[r].updatedHistory)]]
       \/ \E e \in ErrorStatuses :
             rq' = [rq EXCEPT ![r] =
                       Respond([rq[r] EXCEPT !.gateway = "rejected", !.upstream = e,
                                             !.sent = project(rq[r].updatedHistory)],
                               500, "Internal Server Error")]

\* chat.ts:187-193  one iteration of the for-await loop
StreamChunk(r, delta) ==
    /\ rq[r].pc = "streaming"
    /\ Len(rq[r].stream) < MaxChunks
    /\ UNCHANGED <<blobs, now, OPENAI_API_KEY, nreq, ui>>
    /\ LET q == [rq[r] EXCEPT !.stream = Append(@, delta)]
       IN  IF delta = "" THEN rq' = [rq EXCEPT ![r] = q]
           ELSE LET q1 == [q EXCEPT !.assistant = @ \o delta]
                IN  IF q1.cancelled
                    THEN rq' = [rq EXCEPT ![r] = Abort(q1)]
                    ELSE rq' = [rq EXCEPT ![r] = Enqueue(q1, delta)]

\* the catch block saving what was streamed so far
StreamThrowSavesPartial(r) ==
    /\ rq[r].pc = "streaming"
    /\ rq' = [rq EXCEPT ![r] = Abort(rq[r])]
    /\ blobs' = [blobs EXCEPT ![rq[r].blobKey] =
                    Stored(AssistantTurn(rq[r].updatedHistory, rq[r].assistant, now))]
    /\ UNCHANGED <<now, OPENAI_API_KEY, nreq, ui>>

\* chat.ts:187 and 200-205  the gateway stream raises
StreamThrow(r) ==
    /\ rq[r].pc = "streaming"
    /\ rq' = [rq EXCEPT ![r] = Abort(rq[r])]
    /\ UNCHANGED <<blobs, now, OPENAI_API_KEY, nreq, ui>>

\* the log saved once when the stream ends and again by the commit
StreamEndSaves(r) ==
    /\ rq[r].pc = "streaming"
    /\ rq' = [rq EXCEPT ![r].pc = "commit", ![r].ts = now, ![r].sets = @ + 1]
    /\ blobs' = [blobs EXCEPT ![rq[r].blobKey] =
                    Stored(AssistantTurn(rq[r].updatedHistory, rq[r].assistant, now))]
    /\ UNCHANGED <<now, OPENAI_API_KEY, nreq, ui>>

\* chat.ts:187 and 195  the gateway stream is exhausted
StreamEnd(r) ==
    /\ rq[r].pc = "streaming"
    /\ rq' = [rq EXCEPT ![r].pc = "commit", ![r].ts = now]
    /\ UNCHANGED <<blobs, now, OPENAI_API_KEY, nreq, ui>>

\* the turn appended to whatever the store holds at commit time
CommitAppends(r) ==
    /\ rq[r].pc = "commit"
    /\ UNCHANGED <<now, OPENAI_API_KEY, nreq, ui>>
    /\ LET q == [rq[r] EXCEPT !.sets = @ + 1]
           full == AssistantTurn(q.updatedHistory, q.assistant, q.ts)
           turn == SubSeq(full, Len(full) - 1, Len(full))
       IN  \/ /\ blobs' = [blobs EXCEPT ![q.blobKey] =
                              Stored(LoadHistory(blobs[q.blobKey]) \o turn)]
              /\ rq' = [rq EXCEPT ![r] = Ended(Close(q), "Committed", 200)]
           \/ /\ rq' = [rq EXCEPT ![r] = Abort(q)]
              /\ UNCHANGED blobs

\* chat.ts:196-205  the whole-log write of the turn, then close
Commit(r) ==
    /\ rq[r].pc = "commit"
    /\ UNCHANGED <<now, OPENAI_API_KEY, nreq, ui>>
    /\ LET q == [rq[r] EXCEPT !.sets = @ + 1]
       IN  \/ /\ blobs' = [blobs EXCEPT ![q.blobKey] =
                              Stored(AssistantTurn(q.updatedHistory, q.assistant, q.ts))]
              /\ rq' = [rq EXCEPT ![r] = Ended(Close(q), "Committed", 200)]
           \/ /\ rq' = [rq EXCEPT ![r] = Abort(q)]
              /\ UNCHANGED blobs

\* the caller cancels the response stream (no cancel handler at chat.ts:178-207)
Cancel(r) ==
    /\ rq[r].pc \in {"streaming", "commit"}
    /\ ~rq[r].cancelled
    /\ rq' = [rq EXCEPT ![r].cancelled = TRUE, ![r].closed = TRUE,
                        ![r].midStream = (rq[r].pc = "streaming")]
    /\ UNCHANGED <<blobs, now, OPENAI_API_KEY, nreq, ui>>

\* the invocation is over; its slot serves the next request
Return(r) ==
    /\ rq[r].pc \in Terminal
    /\ rq' = [rq EXCEPT ![r] = Idle]
    /\ UNCHANGED <<blobs, now, OPENAI_API_KEY, nreq, ui>>

\* the wall clock advances
Tick ==
    /\ now < MaxClock
    /\ now' = now + 1
    /\ UNCHANGED <<blobs, OPENAI_API_KEY, rq, nreq, ui>>

\* ------------------------------------------------------ conversations.ts
\* conversations.ts:87 and 92  the default title and the cut of title.slice(0, 60)
DEFAULT_TITLE == "New chat"
TITLE_MAX == 60

\* conversations.ts:88  process.env.OPENAI_MODEL ?? "gpt-5-nano-2025-08-07"
DEFAULT_MODEL == "gpt-5-nano-2025-08-07"

\* the string kept whole
keepAll(s, n) == s

\* String.prototype.slice(0, n), conversations.ts:92 and 112
slice(s, n) == IF Len(s) > n THEN SubSeq(s, 1, n) ELSE s

\* an optional field of a JSON body
Undefined == [defined |-> FALSE, value |-> ""]
Some(v) == [defined |-> TRUE, value |-> v]

\* conversations.ts:53-61  a read that throws, a missing blob and a value that is not
\* an array all give []
loadIndex(blob, readOk) == IF readOk /\ blob.present /\ blob.array THEN blob.json ELSE <<>>

\* the locals of an invocation after const list = await loadIndex(store)
Loaded(q, readOk) == [q EXCEPT !.gets = @ + 1, !.readFailed = ~readOk]

\* conversations.ts:63-65
saveIndex(b, list) == [b EXCEPT ![INDEX_KEY] = Stored(list)]

\* Array.prototype.filter, conversations.ts:154
RECURSIVE filterOut(_, _)
filterOut(list, id) ==
    IF list = <<>> THEN <<>>
    ELSE IF idOf(Head(list)) = id THEN filterOut(Tail(list), id)
    ELSE <<Head(list)>> \o filterOut(Tail(list), id)

\* the first entry taken when no entry has the id
findIndexOrFirst(list, id) ==
    IF \E i \in 1..Len(list) : idOf(list[i]) = id
    THEN CHOOSE i \in 1..Len(list) :
            idOf(list[i]) = id /\ \A j \in 1..(i - 1) : idOf(list[j]) # id
    ELSE IF list # <<>> THEN 1 ELSE 0

\* Array.prototype.findIndex, conversations.ts:123 (0 stands for -1)
findIndex(list, id) ==
    IF \E i \in 1..Len(list) : idOf(list[i]) = id
    THEN CHOOSE i \in 1..Len(list) :
            idOf(list[i]) = id /\ \A j \in 1..(i - 1) : idOf(list[j]) # id
    ELSE 0

\* the list answered in its stored order
keepStoredOrder(list) == list

\* Array.prototype.sort with (a, b) => b.updatedAt - a.updatedAt (stable), conversations.ts:76
RECURSIVE insertSorted(_, _)
insertSorted(sorted, x) ==
    IF sorted = <<>> THEN <<x>>
    ELSE IF x.updatedAt > Head(sorted).updatedAt THEN <<x>> \o sorted
    ELSE <<Head(sorted)>> \o insertSorted(Tail(sorted), x)

RECURSIVE sortByUpdatedAt(_)
sortByUpdatedAt(list) ==
    IF list = <<>> THEN <<>>
    ELSE insertSorted(sortByUpdatedAt(SubSeq(list, 1, Len(list) - 1)), list[Len(list)])

\* a title of 61 characters, one more than conversations.ts:92 keeps
LongTitle == "Plan a week of dinners for four people, no fish, under 90 eur"

\* the requests a caller of /conversations can send
ConversationsInputs ==
    [method : {"GET", "POST", "PATCH", "DELETE", "PUT"},
     id : {"", "a", "u1", "index"},
     title : {Undefined, Some(""), Some("T"), Some(LongTitle)},
     model : {Undefined, Some("m")}]

\* conversations.ts:67-120 and 144-151  the handler up to its first store access
ConversationsRequest(r, in) ==
    /\ CanStart(r)
    /\ nreq' = nreq + 1
    /\ UNCHANGED <<blobs, now, OPENAI_API_KEY, ui>>
    /\ LET q == [Idle EXCEPT !.fn = "conversations", !.kind = in.method]
           reply(code, error) == rq' = [rq EXCEPT ![r] = Respond(q, code, error)]
       IN  CASE in.method = "GET" -> rq' = [rq EXCEPT ![r] = [q EXCEPT !.pc = "getLoad"]]
             [] in.method = "POST" ->
                  \E id \in FreshUUIDs :
                     LET title == IF in.title.defined THEN in.title.value ELSE DEFAULT_TITLE
                         model == IF in.model.defined THEN in.model.value ELSE DEFAULT_MODEL
                         meta == [id |-> id, title |-> slice(title, TITLE_MAX), model |-> model,
                                  createdAt |-> now, updatedAt |-> now]
                     IN  rq' = [rq EXCEPT ![r] = [q EXCEPT !.pc = "postLoad", !.id = id,
                                                           !.meta = meta]]
             [] in.method = "PATCH" ->
                  LET title == IF in.title.defined THEN Some(slice(in.title.value, TITLE_MAX))
                               ELSE Undefined
                  IN  IF in.id = "" \/ ((~title.defined \/ title.value = "")
                                        /\ (~in.model.defined \/ in.model.value = ""))
                      THEN reply(400, "id and one of {title, model} required")
                      ELSE rq' = [rq EXCEPT ![r] =
                                    [q EXCEPT !.pc = "patchLoad", !.id = in.id,
                                        !.meta = [NoMeta EXCEPT
                                            !.title = title, !.model = in.model]]]
             [] in.method = "DELETE" ->
                  IF in.id = "" THEN reply(400, "id required")
                  ELSE rq' = [rq EXCEPT ![r] = [q EXCEPT !.pc = "deleteLoad", !.id = in.id]]
             [] OTHER -> reply(405, "")

\* conversations.ts:75-80  GET: load, sort, answer
GetLoad(r) ==
    /\ rq[r].pc = "getLoad"
    /\ UNCHANGED <<blobs, now, OPENAI_API_KEY, nreq, ui>>
    /\ \E readOk \in BOOLEAN :
          rq' = [rq EXCEPT ![r] =
                    [Ended(Loaded(rq[r], readOk), "responded", 200) EXCEPT
                        !.list = sortByUpdatedAt(loadIndex(blobs[INDEX_KEY], readOk))]]

\* conversations.ts:94  POST: const list = await loadIndex(store)
PostLoad(r) ==
    /\ rq[r].pc = "postLoad"
    /\ UNCHANGED <<blobs, now, OPENAI_API_KEY, nreq, ui>>
    /\ \E readOk \in BOOLEAN :
          rq' = [rq EXCEPT ![r] =
                    [Loaded(rq[r], readOk) EXCEPT
                        !.list = loadIndex(blobs[INDEX_KEY], readOk), !.pc = "postSave"]]

\* the new entry put behind the entries already listed
PostSaveAtBack(r) ==
    /\ rq[r].pc = "postSave"
    /\ UNCHANGED <<now, OPENAI_API_KEY, nreq, ui>>
    /\ \/ /\ blobs' = saveIndex(blobs, Append(rq[r].list, rq[r].meta))
          /\ rq' = [rq EXCEPT ![r].pc = "postSet"]
       \/ /\ rq' = [rq EXCEPT ![r] = Respond(rq[r], 500, "server")]
          /\ UNCHANGED blobs

\* conversations.ts:95  POST: await saveIndex(store, [meta, ...list])
PostSave(r) ==
    /\ rq[r].pc = "postSave"
    /\ UNCHANGED <<now, OPENAI_API_KEY, nreq, ui>>
    /\ \/ /\ blobs' = saveIndex(blobs, <<rq[r].meta>> \o rq[r].list)
          /\ rq' = [rq EXCEPT ![r].pc = "postSet"]
       \/ /\ rq' = [rq EXCEPT ![r] = Respond(rq[r], 500, "server")]
          /\ UNCHANGED blobs

\* conversations.ts:98-103  POST: write the empty log, answer {id}
PostSet(r) ==
    /\ rq[r].pc = "postSet"
    /\ UNCHANGED <<now, OPENAI_API_KEY, nreq, ui>>
    /\ LET q == [rq[r] EXCEPT !.sets = @ + 1]
       IN  \/ /\ blobs' = [blobs EXCEPT ![keyFor(q.id)] = Stored(<<>>)]
              /\ rq' = [rq EXCEPT ![r] = Ended(q, "responded", 200)]
           \/ /\ rq' = [rq EXCEPT ![r] = Respond(q, 500, "server")]
              /\ UNCHANGED blobs

\* conversations.ts:122-135  PATCH: load, find, update the entry in memory
PatchLoad(r) ==
    /\ rq[r].pc = "patchLoad"
    /\ UNCHANGED <<blobs, now, OPENAI_API_KEY, nreq, ui>>
    /\ \E readOk \in BOOLEAN :
          LET q == Loaded(rq[r], readOk)
              list == loadIndex(blobs[INDEX_KEY], readOk)
              idx == findIndex(list, q.id)
              title == q.meta.title
              model == q.meta.model
          IN  IF idx = 0
              THEN rq' = [rq EXCEPT ![r] = Respond(q, 404, "not_found")]
              ELSE rq' = [rq EXCEPT ![r] =
                            [q EXCEPT !.pc = "patchSave",
                               !.list = [list EXCEPT ![idx] =
                                  [@ EXCEPT !.title = IF title.defined THEN title.value ELSE @,
                                            !.model = IF model.defined THEN model.value ELSE @,
                                            !.updatedAt = now]]]]

\* the updated entry moved to the front of the stored list
PatchSaveMovesToFront(r) ==
    /\ rq[r].pc = "patchSave"
    /\ UNCHANGED <<now, OPENAI_API_KEY, nreq, ui>>
    /\ \/ /\ LET idx == findIndex(rq[r].list, rq[r].id)
             IN  blobs' = saveIndex(blobs, <<rq[r].list[idx]>> \o filterOut(rq[r].list, rq[r].id))
          /\ rq' = [rq EXCEPT ![r] = Ended(rq[r], "responded", 200)]
       \/ /\ rq' = [rq EXCEPT ![r] = Respond(rq[r], 500, "server")]
          /\ UNCHANGED blobs

\* conversations.ts:136-141  PATCH: await saveIndex(store, list)
PatchSave(r) ==
    /\ rq[r].pc = "patchSave"
    /\ UNCHANGED <<now, OPENAI_API_KEY, nreq, ui>>
    /\ \/ /\ blobs' = saveIndex(blobs, rq[r].list)
          /\ rq' = [rq EXCEPT ![r] = Ended(rq[r], "responded", 200)]
       \/ /\ rq' = [rq EXCEPT ![r] = Respond(rq[r], 500, "server")]
          /\ UNCHANGED blobs

\* conversations.ts:153-154  DELETE: load the index and filter the id out
DeleteLoad(r) ==
    /\ rq[r].pc = "deleteLoad"
    /\ UNCHANGED <<blobs, now, OPENAI_API_KEY, nreq, ui>>
    /\ \E readOk \in BOOLEAN :
          rq' = [rq EXCEPT ![r] =
                    [Loaded(rq[r], readOk) EXCEPT
                        !.list = filterOut(loadIndex(blobs[INDEX_KEY], readOk), rq[r].id),
                        !.pc = "deleteSave"]]

\* conversations.ts:155  DELETE: await saveIndex(store, next)
DeleteSave(r) ==
    /\ rq[r].pc = "deleteSave"
    /\ UNCHANGED <<now, OPENAI_API_KEY, nreq, ui>>
    /\ \/ /\ blobs' = saveIndex(blobs, rq[r].list)
          /\ rq' = [rq EXCEPT ![r].pc = "deleteBlob", ![r].list = <<>>]
       \/ /\ rq' = [rq EXCEPT ![r] = Respond(rq[r], 500, "server")]
          /\ UNCHANGED blobs

\* a throw of the log deletion answered as a server error
DeleteBlobThrows(r) ==
    /\ rq[r].pc = "deleteBlob"
    /\ UNCHANGED <<now, OPENAI_API_KEY, nreq, ui>>
    /\ \/ /\ blobs' = [blobs EXCEPT ![keyFor(rq[r].id)] = Missing]
          /\ rq' = [rq EXCEPT ![r] = Ended(rq[r], "responded", 200)]
       \/ /\ rq' = [rq EXCEPT ![r] = Respond(rq[r], 500, "server")]
          /\ UNCHANGED blobs

\* conversations.ts:157-169  DELETE: delete the log if the store can, swallow a throw
DeleteBlob(r) ==
    /\ rq[r].pc = "deleteBlob"
    /\ UNCHANGED <<now, OPENAI_API_KEY, nreq, ui>>
    /\ rq' = [rq EXCEPT ![r] = Ended(rq[r], "responded", 200)]
    /\ \/ blobs' = [blobs EXCEPT ![keyFor(rq[r].id)] = Missing]
       \/ UNCHANGED blobs

\* ------------------------------------------------------------- Chat.tsx
\* the text of a sequence of chunks, as the reader of the body accumulates it
\* (Chat.tsx:442-449)
RECURSIVE concat(_)
concat(chunks) == IF chunks = <<>> THEN "" ELSE Head(chunks) \o concat(Tail(chunks))

\* Chat.tsx:265-269 and 306-309  MODEL_CHOICES[0].id, the model of a client that saved none
CLIENT_MODEL == "gpt-4.1-2025-04-14"

\* what the user types into the composer
ClientInputs == {" ", " hi ", "say: 'a  -b'"}

\* Chat.tsx:458  .replace(/\s+/g, " ")
RECURSIVE collapseSpaces(_)
collapseSpaces(s) ==
    IF Len(s) = 0 THEN s
    ELSE IF SubSeq(s, 1, 1) \in Whitespace
    THEN " " \o collapseSpaces(trimStart(s))
    ELSE SubSeq(s, 1, 1) \o collapseSpaces(SubSeq(s, 2, Len(s)))

\* Chat.tsx:462  the characters of /[“”"':]+/ (the two curly quotes are not typed here)
TitlePunctuation == {"\"", "'", ":"}

\* Chat.tsx:462  .replace(/[“”"':]+/g, "")
RECURSIVE stripPunctuation(_)
stripPunctuation(s) ==
    IF Len(s) = 0 THEN s
    ELSE IF SubSeq(s, 1, 1) \in TitlePunctuation
    THEN stripPunctuation(SubSeq(s, 2, Len(s)))
    ELSE SubSeq(s, 1, 1) \o stripPunctuation(SubSeq(s, 2, Len(s)))

\* Chat.tsx:462  .replace(/\s*[-–—]\s*/g, " - ") for the ASCII dash
RECURSIVE spaceDashes(_)
spaceDashes(s) ==
    IF Len(s) = 0 THEN s
    ELSE LET t == trimStart(s)
         IN  IF Len(t) > 0 /\ SubSeq(t, 1, 1) = "-"
             THEN " - " \o spaceDashes(trimStart(SubSeq(t, 2, Len(t))))
             ELSE SubSeq(s, 1, 1) \o spaceDashes(SubSeq(s, 2, Len(s)))

\* Chat.tsx:463  .split(" ").slice(0, n).join(" "): the text before the n-th space
RECURSIVE firstWords(_, _)
firstWords(s, n) ==
    IF Len(s) = 0 THEN s
    ELSE IF SubSeq(s, 1, 1) = " "
    THEN IF n = 1 THEN "" ELSE " " \o firstWords(SubSeq(s, 2, Len(s)), n - 1)
    ELSE SubSeq(s, 1, 1) \o firstWords(SubSeq(s, 2, Len(s)), n)

\* Chat.tsx:463-464  the caps on words and characters, and the ellipsis ("~" stands
\* for the one character U+2026)
TITLE_WORDS == 10
TITLE_CHARS == 56
TITLE_KEPT == 53
ELLIPSIS == "~"

LowerCase == "abcdefghijklmnopqrstuvwxyz"
UpperCase == "ABCDEFGHIJKLMNOPQRSTUVWXYZ"

\* String.prototype.toUpperCase of one character, Chat.tsx:467
toUpperCase(c) ==
    IF \E i \in 1..Len(LowerCase) : SubSeq(LowerCase, i, i) = c
    THEN LET i == CHOOSE j \in 1..Len(LowerCase) : SubSeq(LowerCase, j, j) = c
         IN  SubSeq(UpperCase, i, i)
    ELSE c

\* Chat.tsx:455-468
inferTitleFrom(firstUser, firstAssistant) ==
    LET source == IF firstUser # "" THEN firstUser
                  ELSE IF firstAssistant # "" THEN firstAssistant ELSE DEFAULT_TITLE
        base == trim(collapseSpaces(source))
        noPunct == spaceDashes(stripPunctuation(base))
        words == firstWords(noPunct, TITLE_WORDS)
        title == IF Len(words) > TITLE_CHARS
                 THEN SubSeq(words, 1, TITLE_KEPT) \o ELLIPSIS ELSE words
    IN  IF Len(title) = 0 THEN title
        ELSE toUpperCase(SubSeq(title, 1, 1)) \o SubSeq(title, 2, Len(title))

\* the guard taken to hold on every turn after the first message
needsTitleOnLaterTurns(assistantMessage, messages, conversationId) ==
    /\ assistantMessage # ""
    /\ Len(messages) >= 1
    /\ conversationId # ""

\* Chat.tsx:471  assistantMessage && messages.length === 1 && conversationId
needsTitle(assistantMessage, messages, conversationId) ==
    /\ assistantMessage # ""
    /\ Len(messages) = 1
    /\ conversationId # ""

\* Chat.tsx:583-592  the assistant message shown on the error path
ERROR_TEXT == "Sorry, there was an error processing your request."
QUOTA_TEXT == "Quota exceeded. Please add credits or try again later."

\* Chat.tsx:542-561  handleSubmit up to the fetch of /chat: the handler and the
\* processStreamedResponse it calls belong to one render, so the messages and the
\* conversationId they read are those of that render, whatever is set afterwards
handleSubmit(input) ==
    /\ ui.pc = "idle"
    /\ trim(input) # ""
    /\ ui.seq < MaxRequests
    /\ ui' = [ui EXCEPT
                !.pc = "fetching",
                !.messages = Append(@, [role |-> "user", content |-> trim(input)]),
                !.snapshot = [messages |-> ui.messages,
                              conversationId |-> ui.conversationId],
                !.request = [ping |-> FALSE, method |-> "POST", debug |-> FALSE,
                             message |-> trim(input), newConversation |-> FALSE,
                             conversationId |-> ui.conversationId, model |-> CLIENT_MODEL],
                !.seq = @ + 1]
    /\ UNCHANGED <<blobs, now, OPENAI_API_KEY, rq, nreq>>

\* the function receives the request the client sent
ChatFetch == ui.pc = "fetching" /\ nreq < ui.seq /\ ChatRequest(1, ui.request)

\* Chat.tsx:563-595 and 437-487  the response of /chat: the id of the header, the error
\* path, or the body read to its end, the title guard and the PATCH of the title
processStreamedResponse ==
    /\ ui.pc = "fetching"
    /\ nreq = ui.seq
    /\ rq[1].pc \in Terminal
    /\ UNCHANGED <<blobs, now, OPENAI_API_KEY, rq, nreq>>
    /\ IF rq[1].status = 200
       THEN LET assistantMessage == concat(rq[1].out)
                messages == ui.snapshot.messages
                conversationId == ui.snapshot.conversationId
                next == [ui EXCEPT
                           !.conversationId = IF rq[1].id # conversationId
                                              THEN rq[1].id ELSE @,
                           !.messages = Append(@, [role |-> "assistant",
                                                   content |-> assistantMessage])]
            IN  IF needsTitle(assistantMessage, messages, conversationId)
                THEN ui' = [next EXCEPT
                              !.pc = "patching",
                              !.request = [method |-> "PATCH", id |-> conversationId,
                                           title |-> Some(inferTitleFrom(messages[1].content,
                                                                         assistantMessage)),
                                           model |-> Undefined],
                              !.seq = @ + 1]
                ELSE ui' = [next EXCEPT !.pc = "idle"]
       ELSE \E text \in (IF rq[1].status = 429 THEN {QUOTA_TEXT}
                         ELSE IF rq[1].upstream = 429 THEN {QUOTA_TEXT, ERROR_TEXT}
                         ELSE {ERROR_TEXT}) :
               ui' = [ui EXCEPT !.pc = "idle",
                                !.messages = Append(@, [role |-> "assistant",
                                                        content |-> text])]

\* the response was read: the invocation that gave it is over
ResponseTaken == ui.pc = "idle" \/ nreq < ui.seq

\* Chat.tsx:773-780 and 759-761  the listener of "open-conversation" calls
\* loadConversation for a non-empty id, which fetches /chat?id=... with no method
\* and no body: a GET. The event is taken here between two sends.
loadConversation(id) ==
    /\ ui.pc = "idle"
    /\ id # ""
    /\ ui.seq < MaxRequests
    /\ ui' = [ui EXCEPT
                !.pc = "opening",
                !.request = [ping |-> FALSE, method |-> "GET", id |-> id],
                !.seq = @ + 1]
    /\ UNCHANGED <<blobs, now, OPENAI_API_KEY, rq, nreq>>

\* part_003:159-169  openChat of the sidebar, given no onSelect, dispatches
\* "open-conversation" with the id of the row
openChat(id) == loadConversation(id)

\* the function receives the GET the client sent
OpenFetch == ui.pc = "opening" /\ nreq < ui.seq /\ ChatRequest(1, ui.request)

\* chat.ts:78  the body of the 405 is the text "Method Not Allowed"
PlainText(q) == q.status = 405

\* Chat.tsx:762-770  r.json() throws on a body that is no JSON and the catch only
\* logs; on a JSON body the id becomes the active one and the rows, or none when the
\* value is no array, the messages shown
loadConversationResponse ==
    /\ ui.pc = "opening"
    /\ nreq = ui.seq
    /\ rq[1].pc \in Terminal
    /\ UNCHANGED <<blobs, now, OPENAI_API_KEY, rq, nreq>>
    /\ IF PlainText(rq[1])
       THEN ui' = [ui EXCEPT !.pc = "idle"]
       ELSE ui' = [ui EXCEPT !.pc = "idle",
                             !.conversationId = ui.request.id,
                             !.messages = <<>>]

\* --------------------------------------------------------- specifications
\* the steps of a streamed turn after its request was accepted
TurnStep(r, deltas) ==
    \/ Load(r)
    \/ Create(r)
    \/ \E delta \in deltas : StreamChunk(r, delta)
    \/ StreamThrow(r)
    \/ StreamEnd(r)
    \/ Commit(r)

DebugStep(r) == DebugCompletion(r) \/ DebugSet(r)

CreateStep(r) == PostLoad(r) \/ PostSave(r) \/ PostSet(r)

DeleteStep(r) == DeleteLoad(r) \/ DeleteSave(r) \/ DeleteBlob(r)

\* the streamed turns, resets, creates and deletes of two concurrent invocations
LeanChatInputs ==
    {in \in ChatInputs :
        /\ ~in.ping /\ in.method = "POST" /\ ~in.debug
        /\ in.conversationId = " a " /\ in.message # " "}

LeanDeltas == {"", "ok"}

LeanConversationsInputs ==
    {in \in ConversationsInputs :
        /\ in.method \in {"POST", "DELETE"}
        /\ in.id = "a"
        /\ ~in.title.defined /\ ~in.model.defined}

Next ==
    \E r \in Reqs :
        \/ \E in \in LeanChatInputs : ChatRequest(r, in)
        \/ \E in \in LeanConversationsInputs : ConversationsRequest(r, in)
        \/ NewConversation(r)
        \/ TurnStep(r, LeanDeltas)
        \/ CreateStep(r)
        \/ DeleteStep(r)
        \/ Return(r)

Spec == Init /\ [][Next]_vars

\* two streamed turns on one conversation that holds one earlier turn
RaceLog ==
    <<[role |-> "user", content |-> "hey", ts |-> 0],
      [role |-> "assistant", content |-> "Hello", ts |-> 0]>>

InitRace ==
    /\ blobs = [k \in BlobKeys |-> IF k = keyFor("a") THEN Stored(RaceLog) ELSE Missing]
    /\ now = 0
    /\ OPENAI_API_KEY = TRUE
    /\ rq = [r \in Reqs |-> Idle]
    /\ nreq = 0
    /\ ui = Mounted("")

RaceInputs == {in \in LeanChatInputs : ~in.newConversation}

RaceNext ==
    \E r \in Reqs :
        \/ \E in \in RaceInputs : ChatRequest(r, in)
        \/ TurnStep(r, LeanDeltas)

SpecRace == InitRace /\ [][RaceNext]_vars

\* one invocation at a time, every request to /chat and every gateway behaviour; a
\* request that names no conversation is a newConversation request
SeqChatInputs ==
    {in \in ChatInputs :
        /\ in.message # "yo"
        /\ in.conversationId # "index"
        /\ in.conversationId = "" => in.newConversation}

SeqNext ==
    \/ \E in \in SeqChatInputs : ChatRequest(1, in)
    \/ NewConversation(1)
    \/ TurnStep(1, Deltas)
    \/ DebugStep(1)
    \/ Cancel(1)
    \/ Return(1)

SpecSeq == Init /\ [][SeqNext]_vars

\* the event loop resumes an awaiting handler, the gateway sequence is finite and a
\* store call settles: an accepted turn keeps taking steps
FairSeq == SpecSeq /\ WF_vars(TurnStep(1, Deltas))

\* one invocation at a time, every request to /chat, short gateway streams
ReqNext ==
    \/ \E in \in SeqChatInputs : ChatRequest(1, in)
    \/ NewConversation(1)
    \/ TurnStep(1, LeanDeltas)
    \/ DebugStep(1)
    \/ Return(1)

SpecReq == Init /\ [][ReqNext]_vars

\* one streamed turn at a time on conversation "a", whose blob is missing, holds a log
\* of one turn, or holds bytes that are not the JSON of an array
InitLoad ==
    /\ \E b \in {Missing, Stored(RaceLog), Corrupt} :
          blobs = [k \in BlobKeys |-> IF k = keyFor("a") THEN b ELSE Missing]
    /\ now = 0
    /\ OPENAI_API_KEY = TRUE
    /\ rq = [r \in Reqs |-> Idle]
    /\ nreq = 0
    /\ ui = Mounted("")

LoadNext ==
    \/ \E in \in RaceInputs : ChatRequest(1, in)
    \/ TurnStep(1, LeanDeltas)
    \/ Return(1)

SpecLoad == InitLoad /\ [][LoadNext]_vars

\* one invocation at a time: turns and resets on the ids "a" and "index", creates, and
\* deletes of those ids
KeyChatInputs ==
    {in \in ChatInputs :
        /\ ~in.ping /\ in.method = "POST" /\ ~in.debug
        /\ in.conversationId \in {" a ", "index"}
        /\ in.message = " hi " /\ in.model = ""}

KeyConversationsInputs ==
    {in \in ConversationsInputs :
        /\ in.method \in {"POST", "DELETE"}
        /\ in.id \in {"a", "index"}
        /\ ~in.title.defined /\ ~in.model.defined}

KeyNext ==
    \/ \E in \in KeyChatInputs : ChatRequest(1, in)
    \/ \E in \in KeyConversationsInputs : ConversationsRequest(1, in)
    \/ NewConversation(1)
    \/ TurnStep(1, LeanDeltas)
    \/ CreateStep(1)
    \/ DeleteStep(1)
    \/ Return(1)

SpecKeys == Init /\ [][KeyNext]_vars

\* the entry POST /conversations {} stores for an id at time 0 (conversations.ts:87-92)
DefaultMeta(id) ==
    [id |-> id, title |-> DEFAULT_TITLE, model |-> DEFAULT_MODEL,
     createdAt |-> 0, updatedAt |-> 0]

\* the store after the creates of "u1" and then "u2", both at time 0
TwoConversations ==
    [k \in BlobKeys |->
        IF k = INDEX_KEY THEN Stored(<<DefaultMeta("u2"), DefaultMeta("u1")>>)
        ELSE IF k \in {keyFor("u1"), keyFor("u2")} THEN Stored(<<>>)
        ELSE Missing]

\* the index endpoint on an empty store or on a store of two conversations
InitIndex ==
    /\ blobs \in {[k \in BlobKeys |-> Missing], TwoConversations}
    /\ now = 0
    /\ OPENAI_API_KEY = TRUE
    /\ rq = [r \in Reqs |-> Idle]
    /\ nreq = 0
    /\ ui = Mounted("")

ListStep(r) == GetLoad(r)

RenameStep(r) == PatchLoad(r) \/ PatchSave(r)

\* two concurrent invocations of /conversations: creates, renames and deletes of "u1"
LeanIndexInputs ==
    {in \in ConversationsInputs :
        /\ in.method \in {"GET", "POST", "PATCH", "DELETE"}
        /\ in.id = "u1"
        /\ in.title = (IF in.method = "PATCH" THEN Some("T") ELSE Undefined)
        /\ ~in.model.defined}

IndexNext ==
    \E r \in Reqs :
        \/ \E in \in LeanIndexInputs : ConversationsRequest(r, in)
        \/ ListStep(r)
        \/ CreateStep(r)
        \/ RenameStep(r)
        \/ DeleteStep(r)
        \/ Return(r)

SpecIndex == InitIndex /\ [][IndexNext]_vars

\* /conversations served one request at a time, with a clock that runs between the
\* requests: every method, creates with and without a title and a model, renames and
\* deletes of "u1"
SeqIndexInputs ==
    {in \in ConversationsInputs :
        /\ in.id \in {"", "u1"}
        /\ in.method = "POST" =>
              <<in.title, in.model>> \in {<<Undefined, Undefined>>, <<Some("T"), Some("m")>>,
                                          <<Some(LongTitle), Undefined>>}
        /\ in.method # "POST" => (in.title # Some(LongTitle) /\ ~in.model.defined)}

SeqIndexNext ==
    \/ \E in \in SeqIndexInputs : ConversationsRequest(1, in)
    \/ ListStep(1)
    \/ CreateStep(1)
    \/ RenameStep(1)
    \/ DeleteStep(1)
    \/ Return(1)
    \/ rq[1].pc = "idle" /\ Tick

SpecIndexSeq == InitIndex /\ [][SeqIndexNext]_vars

\* /conversations served one request at a time: creates with a short and with a long
\* title, renames and model changes of "u1" with every combination of title and model,
\* deletes of "u1" and listings, with a clock that runs between the requests
RenameInputs ==
    {in \in ConversationsInputs :
        /\ in.method \in {"GET", "POST", "PATCH", "DELETE"}
        /\ in.id = "u1"
        /\ in.method = "POST" => (in.title \in {Undefined, Some(LongTitle)} /\ ~in.model.defined)
        /\ in.method \in {"GET", "DELETE"} => (~in.title.defined /\ ~in.model.defined)}

RenameNext ==
    \/ \E in \in RenameInputs : ConversationsRequest(1, in)
    \/ ListStep(1)
    \/ CreateStep(1)
    \/ RenameStep(1)
    \/ DeleteStep(1)
    \/ Return(1)
    \/ rq[1].pc = "idle" /\ Tick

SpecRename == InitIndex /\ [][RenameNext]_vars

\* the chat client and the function that serves it: the client restored no id or the
\* id "u1", the store is empty or holds two conversations, and the clock runs between
\* the requests
InitClient ==
    /\ blobs \in {[k \in BlobKeys |-> Missing], TwoConversations}
    /\ now = 0
    /\ OPENAI_API_KEY = TRUE
    /\ rq = [r \in Reqs |-> Idle]
    /\ nreq = 0
    /\ ui \in {Mounted(""), Mounted("u1")}

ClientNext ==
    \/ \E input \in ClientInputs : handleSubmit(input)
    \/ ChatFetch
    \/ TurnStep(1, LeanDeltas)
    \/ processStreamedResponse
    \/ ResponseTaken /\ Return(1)
    \/ ui.pc = "idle" /\ rq[1].pc = "idle" /\ Tick

SpecClient == InitClient /\ [][ClientNext]_vars

\* the chat client beside the sidebar: conversations are opened from the list between
\* the sends
OpenIds == {"u1", "u2"}
OpenInputs == {" hi "}

OpenNext ==
    \/ \E id \in OpenIds : openChat(id)
    \/ OpenFetch
    \/ loadConversationResponse
    \/ \E input \in OpenInputs : handleSubmit(input)
    \/ ChatFetch
    \/ TurnStep(1, LeanDeltas)
    \/ processStreamedResponse
    \/ ResponseTaken /\ Return(1)
    \/ ui.pc = "idle" /\ rq[1].pc = "idle" /\ Tick

SpecOpen == InitClient /\ [][OpenNext]_vars

\* ------------------------------------------------------------------ claims
IsPrefix(a, b) == Len(a) <= Len(b) /\ SubSeq(b, 1, Len(a)) = a

\* the log stored under a key (empty when nothing is stored)
LogAt(b, key) == IF b[key].present THEN b[key].json ELSE <<>>

LogKeys == {keyFor(i) : i \in Ids}

\* invocation r takes this step
Steps(r) == rq'[r] # rq[r]

\* invocation r, a streamed turn, completes its write in this step
TurnCommits(r) == rq[r].pc = "commit" /\ rq'[r].pc = "Committed"

\* the user and assistant messages of the turn of invocation record q
TurnOf(q) ==
    <<[role |-> "user", content |-> trim(q.message)],
      [role |-> "assistant", content |-> q.assistant]>>

\* C1: when a streamed turn with a non-empty message completes its store write, the log
\* stored under its id is the log it loaded followed by {user, message trimmed} and
\* {assistant, reply}, in that order.
C1_CommitStoresLoadedLogPlusTurn ==
    [][\A r \in Reqs :
         TurnCommits(r) =>
            LET log == LogAt(blobs', rq[r].blobKey)
                n == Len(rq[r].history)
            IN  /\ blobs'[rq[r].blobKey].present
                /\ Len(log) = n + 2
                /\ SubSeq(log, 1, n) = rq[r].history
                /\ project(SubSeq(log, n + 1, n + 2)) = TurnOf(rq[r])]_vars

\* C1 witness: a second turn on "a" has committed on top of the first one
C1_Witness ==
    \E r \in Reqs :
        /\ rq[r].pc = "Committed" /\ rq[r].kind = "stream"
        /\ Len(rq[r].history) = 2
        /\ rq[r].message = " hi "
        /\ LogAt(blobs, rq[r].blobKey) # rq[r].history
        /\ IsPrefix(rq[r].history, LogAt(blobs, rq[r].blobKey))
        /\ project(SubSeq(LogAt(blobs, rq[r].blobKey), 3, 4)) = TurnOf(rq[r])

\* C2: in a streamed turn that completes, the chunks enqueued, concatenated in the order
\* enqueued, equal the gateway's fragments concatenated in arrival order and equal the
\* content of the assistant message committed to the log.
C2_ChunksAreFragmentsInOrder ==
    [][\A r \in Reqs :
         TurnCommits(r) =>
            LET log == LogAt(blobs', rq[r].blobKey)
            IN  /\ concat(rq[r].out) = concat(rq[r].stream)
                /\ rq'[r].out = rq[r].out
                /\ log[Len(log)].role = "assistant"
                /\ log[Len(log)].content = concat(rq[r].stream)]_vars

\* C2 witness: fragments "Hel", "lo" were streamed and "Hello" was committed
C2_Witness ==
    \E r \in Reqs :
        /\ rq[r].pc = "Committed" /\ rq[r].kind = "stream"
        /\ rq[r].out = <<"", "Hel", "lo">>
        /\ LogAt(blobs, rq[r].blobKey) # <<>>
        /\ LET log == LogAt(blobs, rq[r].blobKey) IN log[Len(log)].content = "Hello"

\* C3: when the gateway stream raises, after zero or more fragments were forwarded, the
\* turn performs no store write: no step of the turn up to and including the abort
\* changes the store, so neither the user message nor the partial text is persisted.
C3_StreamErrorWritesNothing ==
    [][\A r \in Reqs :
         (Steps(r) /\ rq[r].kind = "stream" /\ rq[r].pc \in {"load", "create", "streaming"})
            => /\ blobs' = blobs
               /\ rq'[r].sets = 0]_vars

\* C3 witness: a turn aborted after forwarding a fragment, and nothing is stored
C3_Witness ==
    \E r \in Reqs :
        /\ rq[r].pc = "Aborted" /\ rq[r].sets = 0
        /\ Len(rq[r].out) = 3
        /\ rq[r].out[3] = ABORT_MARKER
        /\ rq[r].assistant # ""
        /\ ~blobs[rq[r].blobKey].present

\* C4 as stated: after a failed or aborted turn the stored log holds that turn's user
\* message as its last entry.
C4_AbortedTurnKeepsUserMessage ==
    \A r \in Reqs :
        rq[r].pc = "Aborted" =>
            LET log == LogAt(blobs, rq[r].blobKey)
            IN  /\ log # <<>>
                /\ log[Len(log)].role = "user"
                /\ log[Len(log)].content = trim(rq[r].message)

\* C4 amended: a turn leaves the stored log in one of two shapes: written once with its
\* user message and its assistant message both appended, or not written by the turn at
\* all; a failed or aborted turn stores neither message.
C4_TurnWritesBothOrNothing ==
    [][\A r \in Reqs :
         (Steps(r) /\ rq[r].kind = "stream") =>
            \/ blobs' = blobs
            \/ /\ rq'[r].pc = "Committed"
               /\ \A k \in BlobKeys \ {rq[r].blobKey} : blobs'[k] = blobs[k]
               /\ LET log == LogAt(blobs', rq[r].blobKey)
                  IN  /\ Len(log) >= 2
                      /\ project(SubSeq(log, Len(log) - 1, Len(log))) = TurnOf(rq[r])]_vars

\* C4 witness: a turn whose store write failed ended aborted with nothing stored
C4_Witness ==
    \E r \in Reqs :
        /\ rq[r].pc = "Aborted" /\ rq[r].sets = 1
        /\ rq[r].message = "yo"
        /\ ~blobs[rq[r].blobKey].present

\* C5: a streamed turn calls store.set on its log zero times before the gateway
\* sequence is exhausted, exactly once after it, and never twice; the store changes
\* only in that one call.
C5_CommitsExactlyOnce ==
    [][\A r \in Reqs :
         (Steps(r) /\ rq[r].kind = "stream") =>
            /\ rq'[r].sets <= 1
            /\ rq'[r].pc \in {"load", "create", "streaming", "commit"} => rq'[r].sets = 0
            /\ rq'[r].pc = "Committed" => rq'[r].sets = 1
            /\ rq[r].pc = "commit" => rq'[r].sets = 1
            /\ blobs' # blobs => rq[r].pc = "commit"]_vars

\* C5 witness: a turn committed with one write
C5_Witness ==
    \E r \in Reqs :
        /\ rq[r].pc = "Committed" /\ rq[r].kind = "stream" /\ rq[r].sets = 1
        /\ rq[r].assistant = "okok"
        /\ blobs[rq[r].blobKey].present

\* C6: on the streaming path the output channel to the caller is eventually closed in
\* every execution: after normal exhaustion, after an upstream error in mid-stream and
\* after a failed store write.
C6_ChannelEventuallyClosed ==
    \A r \in Reqs : (rq[r].pc = "streaming") ~> rq[r].closed

\* C6 witness: the store write failed, the marker was enqueued and the channel closed
C6_Witness ==
    \E r \in Reqs :
        /\ rq[r].pc = "Aborted" /\ rq[r].sets = 1 /\ ~rq[r].cancelled
        /\ rq[r].closed
        /\ rq[r].out = <<"", "Hel", "lo", ABORT_MARKER>>

\* C7: two concurrent streamed turns A and B on one id start from stored log L and both
\* commit: the stored log is L+A, L+B, L+A+B or L+B+A, so at most one turn is lost and
\* each surviving turn is complete.
C7_AtMostOneTurnLost ==
    (rq[1].pc = "Committed" /\ rq[2].pc = "Committed") =>
        LET L == project(RaceLog)
            A == TurnOf(rq[1])
            B == TurnOf(rq[2])
        IN  project(LogAt(blobs, keyFor("a"))) \in
                {L \o A, L \o B, L \o A \o B, L \o B \o A}

\* C7 witness: both turns committed and both survived, A before B
C7_Witness ==
    /\ rq[1].pc = "Committed" /\ rq[2].pc = "Committed"
    /\ TurnOf(rq[1]) # TurnOf(rq[2])
    /\ project(LogAt(blobs, keyFor("a"))) =
          project(RaceLog) \o TurnOf(rq[1]) \o TurnOf(rq[2])

\* C8: when two concurrent streamed turns on one id both loaded the same log, the
\* commit of the later writer stores its own log only, the other turn is gone, and
\* both callers got a 200 response without an abort marker: the write checks no version.
C8_LastWriterWinsSilently ==
    [][\A r \in Reqs : \A q \in Reqs \ {r} :
         (/\ TurnCommits(r)
          /\ rq[q].pc = "Committed"
          /\ rq[q].blobKey = rq[r].blobKey
          /\ rq[q].history = rq[r].history)
            => /\ project(LogAt(blobs', rq[r].blobKey)) =
                     project(rq[r].history) \o TurnOf(rq[r])
               /\ rq'[r].status = 200 /\ rq[q].status = 200
               /\ \A i \in 1..Len(rq'[r].out) : rq'[r].out[i] # ABORT_MARKER
               /\ \A i \in 1..Len(rq[q].out) : rq[q].out[i] # ABORT_MARKER]_vars

\* C8 witness: both loaded L, both committed with 200, and only the turn of 2 is stored
C8_Witness ==
    /\ rq[1].pc = "Committed" /\ rq[2].pc = "Committed"
    /\ rq[1].history = RaceLog /\ rq[2].history = RaceLog
    /\ rq[1].status = 200 /\ rq[2].status = 200
    /\ TurnOf(rq[1]) # TurnOf(rq[2])
    /\ project(LogAt(blobs, keyFor("a"))) = project(RaceLog) \o TurnOf(rq[2])

Receives(r) == rq[r].pc = "idle" /\ rq'[r].pc # "idle"

\* the POST /chat requests that are not the ping=1 health check
PostChatInputs ==
    [ping : {FALSE}, method : {"POST"}, debug : BOOLEAN,
     message : MessageInputs, newConversation : BOOLEAN,
     conversationId : ConversationIdInputs, model : ModelInputs]

\* the sendMessage requests among them
SendMessageInputs == {in \in PostChatInputs : ~in.newConversation}

\* request bodies without a usable message: missing, empty, whitespace only
BlankMessages == {"", " "}

\* model ids outside the identifier syntax: a space, a slash, 201 characters
MalformedModels == {"no good", "a/b", LongModel}

C12_NotConfiguredBeforeStoreAccess ==
    /\ [][\A r \in Reqs : (Receives(r) /\ ~OPENAI_API_KEY) => \A in \in PostChatInputs :
            ChatRequest(r, in)
               => /\ rq'[r].pc = "responded"
                  /\ rq'[r].status = 500
                  /\ rq'[r].error = "Missing OPENAI_API_KEY"
                  /\ blobs' = blobs]_vars
    /\ [](~OPENAI_API_KEY =>
            /\ \A k \in BlobKeys : blobs[k] = Missing
            /\ \A r \in Reqs :
                  rq[r].gets = 0 /\ rq[r].sets = 0 /\ rq[r].gateway = "")

\* C12 witness: without the credential a request was answered 500 NotConfigured
C12_Witness ==
    /\ ~OPENAI_API_KEY
    /\ \E r \in Reqs :
          /\ rq[r].pc = "responded" /\ rq[r].status = 500
          /\ rq[r].error = "Missing OPENAI_API_KEY"
          /\ rq[r].gets = 0 /\ rq[r].sets = 0 /\ rq[r].gateway = ""

\* C13: when the gateway rejects the request before producing any fragment, the answer
\* is an upstream-error response, distinct from the internal-error response, that
\* carries the upstream status where the provider gave one, and the turn has written
\* nothing to the log.
C13_GatewayRejectionIsUpstreamError ==
    \A r \in Reqs :
        (rq[r].pc = "responded" /\ rq[r].gateway = "rejected") =>
            /\ ~(rq[r].status = 500 /\ rq[r].error = "Internal Server Error")
            /\ rq[r].upstream # 0 => rq[r].status = rq[r].upstream
            /\ rq[r].sets = 0
            /\ rq[r].out = <<>>

\* C14: loading the log for a turn fails closed: when the blob under the conversation
\* id is missing, cannot be read or is not a well-formed array, the turn goes on with
\* an empty log, and in no case is an error answered to the caller.
C14_LoadFailsClosed ==
    [][\A r \in Reqs :
         (Steps(r) /\ rq[r].pc = "load") =>
            LET blob == blobs[rq[r].blobKey]
            IN  /\ rq'[r].pc # "responded"
                /\ rq'[r].history \in
                      {<<>>} \cup (IF blob.present /\ blob.array THEN {blob.json} ELSE {})]_vars

\* C15: a turn whose caller cancelled the response stream before the gateway sequence
\* was exhausted never writes the conversation log.
C15_CancelledStreamNeverCommits ==
    [][\A r \in Reqs :
         (Steps(r) /\ rq[r].midStream) => blobs' = blobs]_vars

\* C16: logs and index live in separate keys: for every conversation id a client
\* supplies, no step of sendMessage or newConversation and no log deletion reads,
\* overwrites or deletes the index blob, and no write of the index changes a stored log.
C16_LogsAndIndexInSeparateKeys ==
    [][\A r \in Reqs :
         Steps(r) =>
            /\ rq[r].pc \in {"newConversation", "load", "commit", "debugSet"} =>
                  /\ rq[r].blobKey # INDEX_KEY
                  /\ blobs'[INDEX_KEY] = blobs[INDEX_KEY]
            /\ rq[r].pc = "deleteBlob" =>
                  /\ keyFor(rq[r].id) # INDEX_KEY
                  /\ blobs'[INDEX_KEY] = blobs[INDEX_KEY]
            /\ rq[r].pc \in {"postSave", "patchSave", "deleteSave"} =>
                  \A k \in LogKeys : blobs'[k] = blobs[k]]_vars

\* the list stored as the index (empty when nothing readable is stored)
IndexAt(b) == loadIndex(b[INDEX_KEY], TRUE)

\* C17: in every reachable state, the state between the two writes of a create
\* included, every id present in the index has a stored conversation log.
C17_IndexedIdsHaveLogs ==
    \A i \in 1..Len(IndexAt(blobs)) : blobs[keyFor(IndexAt(blobs)[i].id)].present

\* C18: in every reachable state the stored index holds at most one entry per id, under
\* every interleaving of create, rename and delete requests of two concurrent
\* invocations.
C18_IndexIdsUnique ==
    \A i, j \in 1..Len(IndexAt(blobs)) :
        IndexAt(blobs)[i].id = IndexAt(blobs)[j].id => i = j

\* C18 witness: a create and a rename of "u1" ran side by side, both were answered 200,
\* and the index lists three conversations, the renamed one among them
C18_Witness ==
    /\ \A r \in Reqs : rq[r].pc = "responded" /\ rq[r].status = 200
    /\ {rq[r].kind : r \in Reqs} = {"POST", "PATCH"}
    /\ Len(IndexAt(blobs)) = 3
    /\ \E i \in 1..3 : IndexAt(blobs)[i].id = "u1" /\ IndexAt(blobs)[i].title = "T"
    /\ \E i \in 1..3 : IndexAt(blobs)[i].id = "u3"

\* a and b hold the same entries, each as often, in any order
SameEntries(a, b) ==
    /\ Len(a) = Len(b)
    /\ \E p \in Permutations(1..Len(a)) : \A i \in 1..Len(a) : a[i] = b[p[i]]

\* updatedAt never grows along the list
NonIncreasingUpdatedAt(list) ==
    \A i \in 1..(Len(list) - 1) : list[i].updatedAt >= list[i + 1].updatedAt

IdsOf(list) == {idOf(list[i]) : i \in 1..Len(list)}

\* C21: PATCH /conversations for an id that no entry of the stored index has is answered
\* 404 "not_found" in the step that reads the index, and that invocation writes nothing:
\* the stored index and every stored log are as before.
C21_PatchUnknownIdIsNotFound ==
    [][\A r \in Reqs :
         (Steps(r) /\ rq[r].pc = "patchLoad" /\ rq[r].id \notin IdsOf(IndexAt(blobs))) =>
            /\ rq'[r].pc = "responded"
            /\ rq'[r].status = 404
            /\ rq'[r].error = "not_found"
            /\ rq'[r].sets = 0
            /\ blobs' = blobs]_vars

\* C21 witness: after "u1" was deleted, a PATCH of "u1" was answered 404 and the index
\* still holds the entry of "u2" as it was
C21_Witness ==
    \E r \in Reqs :
        /\ rq[r].pc = "responded" /\ rq[r].kind = "PATCH" /\ rq[r].id = "u1"
        /\ rq[r].status = 404 /\ rq[r].error = "not_found" /\ ~rq[r].readFailed
        /\ IndexAt(blobs) = <<DefaultMeta("u2")>>
        /\ blobs[keyFor("u2")] = Stored(<<>>)

\* C22: a PATCH /conversations answered 200 stores the index it read with one entry
\* changed, the first one with the id: its title is the supplied title when one was
\* supplied, its model the supplied model when one was supplied, its updatedAt the
\* current time; a field not supplied, the id, createdAt, every other entry, the number
\* and the order of entries and every stored log are as before.
C22_PatchIsPartialUpdate ==
    [][\A r \in Reqs :
         (Steps(r) /\ rq[r].kind = "PATCH") =>
            /\ rq[r].pc # "patchSave" => blobs' = blobs
            /\ (rq[r].pc = "patchSave" /\ rq'[r].status = 200) =>
                  LET old == IndexAt(blobs)
                      new == IndexAt(blobs')
                      idx == findIndex(old, rq[r].id)
                      title == rq[r].meta.title
                      model == rq[r].meta.model
                  IN  /\ idx # 0
                      /\ Len(new) = Len(old)
                      /\ \A i \in 1..Len(old) : i # idx => new[i] = old[i]
                      /\ new[idx].id = old[idx].id
                      /\ new[idx].createdAt = old[idx].createdAt
                      /\ new[idx].title = IF title.defined THEN title.value ELSE old[idx].title
                      /\ new[idx].model = IF model.defined THEN model.value ELSE old[idx].model
                      /\ new[idx].updatedAt = now
                      /\ \A k \in LogKeys : blobs'[k] = blobs[k]]_vars

\* C22 witness: a rename of "u1" to "T" at time 1 was answered 200; the index holds
\* "u2" untouched in front of "u1", which kept its model and createdAt
C22_Witness ==
    \E r \in Reqs :
        /\ rq[r].pc = "responded" /\ rq[r].kind = "PATCH" /\ rq[r].status = 200
        /\ IndexAt(blobs) =
              <<DefaultMeta("u2"), [DefaultMeta("u1") EXCEPT !.title = "T", !.updatedAt = 1]>>

\* C23: DELETE /conversations?id=X stores the index without any entry of id X, and then
\* answers 200 whether the log was deleted or the deletion was not possible or threw,
\* leaving the index as saved; a GET on that store lists no entry of id X.
C23_DeleteSucceedsWithoutLogDeletion ==
    [][\A r \in Reqs :
         Steps(r) =>
            /\ (rq[r].pc = "deleteSave" /\ rq'[r].pc = "deleteBlob") =>
                  /\ rq[r].id \notin IdsOf(IndexAt(blobs'))
                  /\ \A k \in LogKeys : blobs'[k] = blobs[k]
            /\ rq[r].pc = "deleteBlob" =>
                  /\ rq'[r].pc = "responded" /\ rq'[r].status = 200
                  /\ blobs'[INDEX_KEY] = blobs[INDEX_KEY]
                  /\ rq[r].id \notin IdsOf(IndexAt(blobs'))
            /\ rq[r].pc = "getLoad" =>
                  IdsOf(rq'[r].list) \subseteq IdsOf(IndexAt(blobs))]_vars

\* C23 witness: "u1" was deleted from the index while its log stayed in the store, and
\* the following GET listed "u2" alone
C23_Witness ==
    \E r \in Reqs :
        /\ rq[r].pc = "responded" /\ rq[r].kind = "GET" /\ rq[r].status = 200
        /\ rq[r].list = <<DefaultMeta("u2")>>
        /\ blobs[keyFor("u1")].present
        /\ IndexAt(blobs) = <<DefaultMeta("u2")>>

\* C24: every title held in the stored index is at most 60 characters long, after any
\* sequence of creates and renames with titles of up to 61 characters.
C24_TitlesAtMostSixty ==
    \A i \in 1..Len(IndexAt(blobs)) : Len(IndexAt(blobs)[i].title) <= 60

\* C24 witness: "u1" was renamed with the title of 61 characters and the index holds its
\* first 60 characters
C24_Witness ==
    /\ Len(LongTitle) = 61
    /\ \E i \in 1..Len(IndexAt(blobs)) :
          /\ IndexAt(blobs)[i].id = "u1"
          /\ IndexAt(blobs)[i].title = SubSeq(LongTitle, 1, 60)
          /\ IndexAt(blobs)[i].updatedAt = 1

\* the log stored for the conversation the client is on (none when it is on none)
ClientLog == IF ui.conversationId = "" THEN <<>> ELSE LogAt(blobs, keyFor(ui.conversationId))

\* C25: when the first turn of a conversation has completed with a non-empty assistant
\* reply (handleSubmit is over, the client shows the one turn and the stored log holds
\* it), the client has issued one PATCH of that conversation with the title inferred
\* from the first user message and has dispatched conversations-updated once.
C25_FirstTurnInfersTitle ==
    (/\ ui.pc = "idle"
     /\ Len(ui.messages) = 2
     /\ ui.messages[2].content # ""
     /\ Len(ClientLog) = 2
     /\ project(ClientLog) = ui.messages)
        => /\ ui.request = [method |-> "PATCH", id |-> ui.conversationId,
                            title |-> Some(inferTitleFrom(ui.messages[1].content,
                                                          ui.messages[2].content)),
                            model |-> Undefined]
           /\ ui.events = 1

\* C26: a turn that is not the first of its conversation (the log it loaded holds
\* messages, or the client already showed messages when it was sent) issues no title
\* PATCH and dispatches no conversations-updated, and no step of a turn changes the
\* stored index, so a title that is set is not overwritten by a later turn.
C26_LaterTurnsDoNotRetitle ==
    [][/\ (/\ ui.pc = "fetching" /\ ui'.pc # "fetching"
           /\ (rq[1].history # <<>> \/ ui.snapshot.messages # <<>>))
              => /\ ui'.pc = "idle"
                 /\ ui'.request = ui.request
                 /\ ui'.events = ui.events
       /\ blobs'[INDEX_KEY] = blobs[INDEX_KEY]]_vars

\* C26 witness: the second turn on "u1" has completed, the client shows both turns and
\* the store holds them, no PATCH was sent and the entry of "u1" has the title it had
C26_Witness ==
    /\ ui.pc = "idle" /\ ui.conversationId = "u1"
    /\ Len(ui.messages) = 4
    /\ project(ClientLog) = ui.messages
    /\ ui.messages[4].content # ""
    /\ ui.request.method = "POST" /\ ui.events = 0
    /\ IndexAt(blobs) = <<DefaultMeta("u2"), DefaultMeta("u1")>>

\* C27: whenever the client is at rest, every index entry whose conversation holds a
\* completed turn has an updatedAt not earlier than the time that turn was completed
\* (the ts of the last message of its log).
C27_TurnBumpsUpdatedAt ==
    ui.pc = "idle" =>
        \A i \in 1..Len(IndexAt(blobs)) :
            LET log == LogAt(blobs, keyFor(IndexAt(blobs)[i].id))
            IN  log # <<>> => IndexAt(blobs)[i].updatedAt >= log[Len(log)].ts

\* C28: the messages given to the gateway for a turn, streamed or not, are the entries
\* of the log the turn loaded, in log order, followed by the new user message trimmed,
\* each as {role, content} without its timestamp; the log loaded is the log stored under
\* the id (empty when none is stored), and up to and including the call the turn has
\* made no store.set and has changed no blob.
C28_GatewayGetsLoadedLogPlusMessage ==
    [][\A r \in Reqs :
         Steps(r) =>
            /\ (rq[r].pc = "load" /\ rq'[r].pc # "responded") =>
                  /\ rq'[r].history = LogAt(blobs, rq[r].blobKey)
                  /\ rq'[r].sets = 0 /\ blobs' = blobs
            /\ rq[r].pc \in {"create", "debug"} =>
                  LET h == rq[r].history
                  IN  /\ rq'[r].sent =
                            [i \in 1..(Len(h) + 1) |->
                                IF i <= Len(h)
                                THEN [role |-> h[i].role, content |-> h[i].content]
                                ELSE [role |-> "user", content |-> trim(rq[r].message)]]
                      /\ rq'[r].sets = 0 /\ blobs' = blobs]_vars

\* C28 witness: the second turn on "a" is streaming; the gateway was given the stored
\* turn and then {user, "hi"} for the message " hi ", and the store still holds the
\* first turn only
C28_Witness ==
    \E r \in Reqs :
        /\ rq[r].pc = "streaming" /\ rq[r].message = " hi " /\ rq[r].sets = 0
        /\ Len(rq[r].sent) = 3
        /\ rq[r].sent[1].role = "user" /\ rq[r].sent[2].role = "assistant"
        /\ rq[r].sent[3] = [role |-> "user", content |-> "hi"]
        /\ DOMAIN rq[r].sent[1] = {"role", "content"}
        /\ Len(LogAt(blobs, rq[r].blobKey)) = 2

\* the keys of the logs of the ids a client can name, and of the generated ids
ClientLogKeys == LogKeys \cup {keyFor(trim(c)) : c \in ConversationIdInputs \ {""}}

\* the entries of a stored array that are messages
HoldsMessages(list) == \E i \in 1..Len(list) : "role" \in DOMAIN list[i]

\* user, assistant, user, assistant, and so on, an even number of them
Alternating(list) ==
    /\ Len(list) % 2 = 0
    /\ \A i \in 1..Len(list) :
          /\ "role" \in DOMAIN list[i]
          /\ list[i].role = IF i % 2 = 1 THEN "user" ELSE "assistant"

\* C29: starting from an empty store, in every reachable state every blob stored under
\* the key of a conversation id that holds messages is a log of even length whose roles
\* alternate user, assistant, user, assistant, and so on.
C29_LogsAlternate ==
    \A k \in ClientLogKeys :
        (blobs[k].present /\ blobs[k].array /\ HoldsMessages(blobs[k].json))
            => Alternating(blobs[k].json)

\* C30: once a DELETE of id X was answered 200 and a PATCH of X that ran side by side
\* with it has been answered too, the stored index holds no entry of X, whatever the
\* interleaving of their reads and writes.
C30_DeleteNotUndoneByRename ==
    \A d, p \in Reqs :
        (/\ rq[d].pc = "responded" /\ rq[d].kind = "DELETE" /\ rq[d].status = 200
         /\ rq[p].pc = "responded" /\ rq[p].kind = "PATCH" /\ rq[p].id = rq[d].id)
            => rq[d].id \notin IdsOf(IndexAt(blobs))

\* invocation r was answered 200 after an index read that did not throw
Succeeded(r, kind) ==
    /\ rq[r].pc = "responded" /\ rq[r].kind = kind
    /\ rq[r].status = 200 /\ ~rq[r].readFailed

\* C31: when the only two requests served so far ran side by side on different ids and
\* both were answered 200 (their index reads did not fail), both took effect: two
\* creates leave both new ids in the index; a create and a rename leave the new id in
\* the index and the renamed entry with its new title; a create and a delete leave the
\* new id in the index and the deleted id out of it.
C31_ConcurrentIndexMutationsAllTakeEffect ==
    nreq = 2 =>
        \A r \in Reqs : \A q \in Reqs \ {r} :
            (Succeeded(r, "POST") /\ rq[q].id # rq[r].id) =>
                /\ Succeeded(q, "POST") =>
                      {rq[r].id, rq[q].id} \subseteq IdsOf(IndexAt(blobs))
                /\ Succeeded(q, "PATCH") =>
                      /\ rq[r].id \in IdsOf(IndexAt(blobs))
                      /\ \E i \in 1..Len(IndexAt(blobs)) :
                            /\ IndexAt(blobs)[i].id = rq[q].id
                            /\ IndexAt(blobs)[i].title = "T"
                /\ Succeeded(q, "DELETE") =>
                      /\ rq[r].id \in IdsOf(IndexAt(blobs))
                      /\ rq[q].id \notin IdsOf(IndexAt(blobs))

\* C32: a create that saves the index stores the new entry followed by all entries that
\* were stored before, and a delete of X that saves the index stores the entries that
\* were stored before without those of id X, in the same order, whether the read of
\* the index succeeded, threw, or gave a value that is no array.
C32_CreateAndDeleteKeepOtherEntries ==
    [][\A r \in Reqs :
         Steps(r) =>
            /\ (rq[r].pc = "postSave" /\ rq'[r].pc = "postSet") =>
                  IndexAt(blobs') = <<rq[r].meta>> \o IndexAt(blobs)
            /\ (rq[r].pc = "deleteSave" /\ rq'[r].pc = "deleteBlob") =>
                  IndexAt(blobs') = filterOut(IndexAt(blobs), rq[r].id)]_vars

\* the last n messages of a list
LastOf(list, n) == SubSeq(list, Len(list) - n + 1, Len(list))

\* C33: when the client ends a send and the message it shows for the answer is none
\* of its error messages, the log stored for its conversation ends with the user
\* message and the assistant message it displays.
C33_DisplayedTurnIsStored ==
    [][(/\ ui.pc = "fetching"
        /\ ui'.pc \in {"idle", "patching"}
        /\ LastOf(ui'.messages, 1)[1].content \notin {ERROR_TEXT, QUOTA_TEXT})
       => LET log == LogAt(blobs', keyFor(ui'.conversationId))
          IN  /\ Len(log) >= 2
              /\ project(LastOf(log, 2)) = LastOf(ui'.messages, 2)]_vars

\* C34: when the client has handled the opening of conversation X, its active id is X
\* and the messages it shows are the log stored for X; and the next message it sends
\* after that goes to X.
C34_OpenedConversationBecomesActive ==
    [][/\ (ui.pc = "opening" /\ ui'.pc = "idle") =>
             /\ ui'.conversationId = ui.request.id
             /\ ui'.messages = project(LogAt(blobs, keyFor(ui.request.id)))
       /\ (ui.pc = "idle" /\ ui.request.method = "GET" /\ ui'.pc = "fetching") =>
             ui'.request.conversationId = ui.request.id]_vars

====
